---- MODULE Spec2Model ----
(***************************************************************************)
(* Model of the inventory dashboard: the in-memory mock store              *)
(* (models/inventory.server: MOCK_DB, getInventory, claimStock) and the    *)
(* dashboard route (loader, action, stock cell, action cell, the two       *)
(* failure surfaces).                                                      *)
(*                                                                         *)
(* JavaScript runs one task at a time: an async function runs without      *)
(* interruption up to an await of a timer, and again from the timer's      *)
(* expiry to its return.  Each such run is one action here.                *)
(***************************************************************************)
EXTENDS Integers, Sequences, FiniteSets, TLC

\* ------------------------------------------------------------------ bounds
\* Direct invocations of the store or of the route action by callers other
\* than the modelled page (other clients, scripts): one slot per invocation.
MaxCalls == 3
\* Cap on the number of submissions made from the page.
MaxSubmits == 4
\* Cap on the number of times Retry is pressed.
MaxRetries == 1

\* ------------------------------------------------------------- identifiers
\* formData.get("itemId") of a request without that field.
Null == "<null>"
\* An identifier that names no item of the store.
UnknownId == "9"
SeedIds == {"1", "2", "3", "4"}
Ids == SeedIds \cup {UnknownId, Null}
\* The identifiers direct callers pass (claimStock(id), or the action's form
\* data): an item seeded with no stock, an item seeded with stock, an
\* identifier of no item, and a missing form field.
CallIds == {"2", "4", UnknownId, Null}

NoItem == [id |-> "", name |-> "", stock |-> 0]

\* JavaScript values that are thrown, caught or passed as a prop.
Undefined == [type |-> "undefined", message |-> ""]
Error(m) == [type |-> "Error", message |-> m]
\* A thrown value that is not an Error instance (a thrown Response).
ErrorResponse == [type |-> "ErrorResponse", message |-> ""]
\* The message a rejected read carries: that of getInventory's failure
\* injection.
ReadMessages == {"500: Random Legacy API Failure"}

VARIABLES
    MOCK_DB,      \* the store: a sequence of items [id, name, stock]
    calls,        \* direct invocations, one record per slot
    nSubmits,     \* number of submissions the page has made so far
    reads,        \* number of getInventory calls the loader has made so far
    nRetries,     \* number of times Retry was pressed so far
    claimed,      \* per identifier, number of claimStock calls that returned
    view,         \* what the route renders in the data region
    items,        \* the page's last-read inventory (the resolved loader data)
    readPending,  \* the latest inventoryPromise has not settled
    fetcher,      \* per item id, the fetcher keyed claim-<id>
    inflight,     \* per item id, action requests of the page still running
    awaitError,   \* the reason the latest inventoryPromise rejected with
    routeError    \* the error useRouteError() returns

storeVars == <<MOCK_DB, calls, claimed>>
pageVars == <<view, items, readPending, fetcher, inflight, nSubmits, reads,
             nRetries, awaitError, routeError>>
vars == <<MOCK_DB, calls, claimed,
          view, items, readPending, fetcher, inflight, nSubmits, reads,
          nRetries, awaitError, routeError>>

\* ------------------------------------------------------------------- store
\* The seed list MOCK_DB is initialised with.
Seed ==
    << [id |-> "1", name |-> "Super Widget A", stock |-> 10],
       [id |-> "2", name |-> "Mega Widget B", stock |-> 0],
       [id |-> "3", name |-> "Wonder Widget C", stock |-> 5],
       [id |-> "4", name |-> "Hyper Widget D", stock |-> 2] >>

\* MOCK_DB.find((i) => i.id === id): the position of the first item with that
\* id, 0 for undefined.
find(db, id) ==
    IF \E k \in 1..Len(db) : db[k].id = id
    THEN CHOOSE k \in 1..Len(db) :
             db[k].id = id /\ \A j \in 1..(k - 1) : db[j].id # id
    ELSE 0

\* claimStock with the stock check written item.stock < 0.
claimStock_CheckBelowZero(db, id) ==
    LET k == find(db, id) IN
    IF k = 0
    THEN [threw |-> TRUE, message |-> "Item not found", item |-> 0, db |-> db]
    ELSE IF db[k].stock < 0
    THEN [threw |-> TRUE, message |-> "Out of stock", item |-> 0, db |-> db]
    ELSE [threw |-> FALSE, message |-> "", item |-> k,
          db |-> [db EXCEPT ![k].stock = @ - 1]]

\* claimStock without the stock check.
claimStock_NoStockCheck(db, id) ==
    LET k == find(db, id) IN
    IF k = 0
    THEN [threw |-> TRUE, message |-> "Item not found", item |-> 0, db |-> db]
    ELSE [threw |-> FALSE, message |-> "", item |-> k,
          db |-> [db EXCEPT ![k].stock = @ - 1]]

\* claimStock that returns the item without writing the decrement back.
claimStock_NoWrite(db, id) ==
    LET k == find(db, id) IN
    IF k = 0
    THEN [threw |-> TRUE, message |-> "Item not found", item |-> 0, db |-> db]
    ELSE IF db[k].stock <= 0
    THEN [threw |-> TRUE, message |-> "Out of stock", item |-> 0, db |-> db]
    ELSE [threw |-> FALSE, message |-> "", item |-> k, db |-> db]

\* claimStock that decrements before it checks the stock.
claimStock_CheckAfterDecrement(db, id) ==
    LET k == find(db, id) IN
    IF k = 0
    THEN [threw |-> TRUE, message |-> "Item not found", item |-> 0, db |-> db]
    ELSE IF db[k].stock - 1 < 0
    THEN [threw |-> TRUE, message |-> "Out of stock", item |-> 0,
          db |-> [db EXCEPT ![k].stock = @ - 1]]
    ELSE [threw |-> FALSE, message |-> "", item |-> k,
          db |-> [db EXCEPT ![k].stock = @ - 1]]

\* claimStock without the check of find's result: reading stock of undefined
\* throws a TypeError.
claimStock_NoFoundCheck(db, id) ==
    LET k == find(db, id) IN
    IF k = 0
    THEN [threw |-> TRUE,
          message |-> "Cannot read properties of undefined (reading 'stock')",
          item |-> 0, db |-> db]
    ELSE IF db[k].stock <= 0
    THEN [threw |-> TRUE, message |-> "Out of stock", item |-> 0, db |-> db]
    ELSE [threw |-> FALSE, message |-> "", item |-> k,
          db |-> [db EXCEPT ![k].stock = @ - 1]]

\* claimStock that decrements every item in stock, not only the one found.
claimStock_DecrementsAll(db, id) ==
    LET k == find(db, id) IN
    IF k = 0
    THEN [threw |-> TRUE, message |-> "Item not found", item |-> 0, db |-> db]
    ELSE IF db[k].stock <= 0
    THEN [threw |-> TRUE, message |-> "Out of stock", item |-> 0, db |-> db]
    ELSE [threw |-> FALSE, message |-> "", item |-> k,
          db |-> [j \in 1..Len(db) |->
                    IF db[j].stock > 0
                    THEN [db[j] EXCEPT !.stock = @ - 1] ELSE db[j]]]

\* claimStock that takes two units.
claimStock_DecrementByTwo(db, id) ==
    LET k == find(db, id) IN
    IF k = 0
    THEN [threw |-> TRUE, message |-> "Item not found", item |-> 0, db |-> db]
    ELSE IF db[k].stock <= 0
    THEN [threw |-> TRUE, message |-> "Out of stock", item |-> 0, db |-> db]
    ELSE [threw |-> FALSE, message |-> "", item |-> k,
          db |-> [db EXCEPT ![k].stock = @ - 2]]

\* The body of claimStock after its delay: what it throws or returns, and the
\* store it leaves.  item is the position of the returned object in the store
\* (the function returns the stored object itself, not a copy).
claimStock(db, id) ==
    LET k == find(db, id) IN
    IF k = 0
    THEN [threw |-> TRUE, message |-> "Item not found", item |-> 0, db |-> db]
    ELSE IF db[k].stock <= 0
    THEN [threw |-> TRUE, message |-> "Out of stock", item |-> 0, db |-> db]
    ELSE [threw |-> FALSE, message |-> "", item |-> k,
          db |-> [db EXCEPT ![k].stock = @ - 1]]

\* The positions of the items of db that are in stock, in order.
RECURSIVE InStock(_, _)
InStock(db, k) ==
    IF k > Len(db) THEN <<>>
    ELSE (IF db[k].stock > 0 THEN <<k>> ELSE <<>>) \o InStock(db, k + 1)

\* getInventory that returns only the items in stock.
getInventory_InStockOnly(db) ==
    [threw |-> FALSE, list |-> InStock(db, 1), db |-> db]

\* The body of getInventory after its delay: the list it returns and the
\* store it leaves.  The function returns the stored array itself, so the
\* list is the positions of the stored objects, in order.  The failure
\* injection is commented out in the source.
getInventory(db) ==
    [threw |-> FALSE, list |-> [k \in 1..Len(db) |-> k], db |-> db]

\* The route action from claimStock's settlement to its return: the result
\* object sent to the caller (item is serialised: a copy of its fields).
action(r) ==
    IF ~r.threw
    THEN [success |-> TRUE, error |-> "", item |-> r.db[r.item]]
    ELSE [success |-> FALSE, error |-> r.message, item |-> NoItem]

\* The stock of the item an identifier names, -1 when it names none.
stockOf(db, id) == IF find(db, id) = 0 THEN -1 ELSE db[find(db, id)].stock

\* --------------------------------------------------------- direct callers
Calls == 1..MaxCalls

NoResult == [threw |-> FALSE, message |-> "", item |-> 0]
NoData == [success |-> FALSE, error |-> "", item |-> NoItem]
\* stockAtCall is a history field: the stock the target had when the call was
\* made.  No code reads it.
FreeCall ==
    [op |-> "none", id |-> Null, pc |-> "free", stockAtCall |-> -1,
     result |-> NoResult, data |-> NoData, list |-> <<>>]

\* Slots are taken in order: which free slot a call takes makes no difference.
NextFree(c) == calls[c].pc = "free" /\ \A d \in 1..(c - 1) : calls[d].pc # "free"

\* claimStock that decrements before its delay.
CallClaim_DecrementsFirst(c, id) ==
    /\ NextFree(c)
    /\ calls' = [calls EXCEPT ![c] =
                   [@ EXCEPT !.op = "claimStock", !.id = id, !.pc = "delay",
                             !.stockAtCall = stockOf(MOCK_DB, id)]]
    /\ MOCK_DB' = claimStock(MOCK_DB, id).db
    /\ UNCHANGED claimed
    /\ UNCHANGED pageVars

\* claimStock(id) is called: it runs to its await and suspends.
CallClaim(c, id) ==
    /\ NextFree(c)
    /\ calls' = [calls EXCEPT ![c] =
                   [@ EXCEPT !.op = "claimStock", !.id = id, !.pc = "delay",
                             !.stockAtCall = stockOf(MOCK_DB, id)]]
    /\ UNCHANGED <<MOCK_DB, claimed>>
    /\ UNCHANGED pageVars

\* A request is posted to the route action with form data itemId = id (Null:
\* no such field): the action reads the form, calls claimStock and suspends.
CallAction(c, id) ==
    /\ NextFree(c)
    /\ calls' = [calls EXCEPT ![c] =
                   [@ EXCEPT !.op = "action", !.id = id, !.pc = "delay",
                             !.stockAtCall = stockOf(MOCK_DB, id)]]
    /\ UNCHANGED <<MOCK_DB, claimed>>
    /\ UNCHANGED pageVars

\* getInventory() is called: it runs to its await and suspends.
CallRead(c) ==
    /\ NextFree(c)
    /\ calls' = [calls EXCEPT ![c] =
                   [@ EXCEPT !.op = "getInventory", !.pc = "delay"]]
    /\ UNCHANGED <<MOCK_DB, claimed>>
    /\ UNCHANGED pageVars

\* The delay of a claimStock call ends: find, the two checks, the decrement
\* and the return run without suspension; a call made by the action then
\* returns the action's result.
ClaimResume(c) ==
    /\ calls[c].pc = "delay"
    /\ calls[c].op \in {"claimStock", "action"}
    /\ LET r == claimStock(MOCK_DB, calls[c].id) IN
         /\ MOCK_DB' = r.db
         /\ calls' = [calls EXCEPT ![c] =
                        [@ EXCEPT !.pc = "done",
                                  !.result = [threw |-> r.threw,
                                              message |-> r.message,
                                              item |-> r.item],
                                  !.data = IF calls[c].op = "action"
                                           THEN action(r) ELSE NoData]]
         /\ claimed' = IF r.threw THEN claimed
                       ELSE [claimed EXCEPT ![calls[c].id] = @ + 1]
    /\ UNCHANGED pageVars

\* The delay of a getInventory call ends: it returns the store.
ReadResume(c) ==
    /\ calls[c].pc = "delay"
    /\ calls[c].op = "getInventory"
    /\ LET r == getInventory(MOCK_DB) IN
         /\ MOCK_DB' = r.db
         /\ calls' = [calls EXCEPT ![c] =
                        [@ EXCEPT !.pc = "done",
                                  !.result = [threw |-> r.threw, message |-> "",
                                              item |-> 0],
                                  !.list = r.list]]
    /\ UNCHANGED claimed
    /\ UNCHANGED pageVars

\* The list a caller holds after getInventory returned: the stored objects
\* themselves, read now.
ReturnedList(c) == [k \in 1..Len(calls[c].list) |-> MOCK_DB[calls[c].list[k]]]

\* -------------------------------------------------------------------- page
Idle == [state |-> "idle", hasData |-> FALSE, data |-> NoData]

\* InventoryStockCell: fetcher.state is "submitting" or "loading".
isUpdating(f) == f.state = "submitting" \/ f.state = "loading"

\* InventoryStockCell: fetcher.data && !fetcher.data.success.
hasError(f) == f.hasData /\ ~f.data.success

Max(a, b) == IF a >= b THEN a ELSE b

\* The stock cell with the prediction applied whatever the fetcher's data.
displayStock_IgnoreError(item, f) ==
    IF isUpdating(f)
    THEN Max(0, item.stock - 1)
    ELSE item.stock

\* The stock cell with the prediction not floored at 0.
displayStock_NoFloor(item, f) ==
    IF isUpdating(f) /\ ~hasError(f)
    THEN item.stock - 1
    ELSE item.stock

\* InventoryStockCell: the number the stock cell renders.
displayStock(item, f) ==
    IF isUpdating(f) /\ ~hasError(f)
    THEN Max(0, item.stock - 1)
    ELSE item.stock

\* InventoryStockCell: the critical text rendered next to the number ("" when
\* none is rendered).
errorText(f) == IF hasError(f) /\ f.hasData THEN f.data.error ELSE ""

\* InventoryActionCell: fetcher.state is "submitting" or "loading".
isSubmitting(f) == f.state = "submitting" \/ f.state = "loading"

\* The button disabled by the stock alone.
disabled_StockOnly(item, f) == item.stock = 0

\* The button disabled also for the last unit.
disabled_LastUnit(item, f) == isSubmitting(f) \/ item.stock <= 1

\* InventoryActionCell: the disabled prop of the Claim One button.
disabled(item, f) == isSubmitting(f) \/ item.stock = 0

\* The props of the element given as Await's errorElement: the element is
\* created as <InventoryErrorFallback />, with no props.
errorElementProps == [error |-> Undefined]

\* InventoryErrorFallback: the text of the banner's paragraph.
InventoryErrorFallback(props) ==
    IF props.error.type = "Error"
    THEN props.error.message
    ELSE "Failed to load inventory"

\* ErrorBoundary: the text of the banner's paragraph, from useRouteError().
ErrorBoundary(error) ==
    IF error.type = "Error"
    THEN error.message
    ELSE "An unexpected error occurred"

\* A loader that calls getInventory() twice.
loader_ReadsTwice == readPending' = TRUE /\ reads' = reads + 2

\* loader: calls getInventory() once, without awaiting it, and returns the
\* promise.
loader == readPending' = TRUE /\ reads' = reads + 1

\* The page is visited: the loader runs and Dashboard renders the Suspense
\* fallback.
Visit ==
    /\ view = "unvisited"
    /\ loader
    /\ view' = "skeleton"
    /\ UNCHANGED <<items, fetcher, inflight, nSubmits, nRetries, awaitError,
                   routeError>>
    /\ UNCHANGED storeVars

\* The getInventory call behind the latest inventoryPromise returns: the list
\* is serialised to the page (a copy of the values at this moment) and Await
\* renders InventoryTable.
PageReadResolve ==
    /\ readPending
    /\ LET r == getInventory(MOCK_DB) IN
         /\ MOCK_DB' = r.db
         /\ items' = [k \in 1..Len(r.list) |-> r.db[r.list[k]]]
    /\ readPending' = FALSE
    /\ view' = IF view = "routeError" THEN view ELSE "table"
    /\ awaitError' = Undefined
    /\ UNCHANGED <<fetcher, inflight, nSubmits, reads, nRetries, routeError>>
    /\ UNCHANGED <<calls, claimed>>

\* The latest inventoryPromise rejects with Error(m): Await renders its
\* errorElement.  In this build getInventory's own failure injection is
\* commented out; the deferred value still rejects when the response that
\* streams it fails, and the failure surfaces are written for that case.
PageReadReject(m) ==
    /\ readPending
    /\ readPending' = FALSE
    /\ awaitError' = Error(m)
    /\ view' = IF view = "routeError" THEN view ELSE "readError"
    /\ UNCHANGED <<items, fetcher, inflight, nSubmits, reads, nRetries, routeError>>
    /\ UNCHANGED storeVars

\* The values that reach the route boundary: an Error and a value that is
\* not an Error.
RouteErrors == {Error("Failed to fetch"), ErrorResponse}

\* An error escapes the Await containment and reaches the route boundary.
RouteThrow(e) ==
    /\ view \in {"skeleton", "table", "readError"}
    /\ view' = "routeError"
    /\ routeError' = e
    /\ UNCHANGED <<items, readPending, fetcher, inflight, nSubmits, reads, nRetries,
                   awaitError>>
    /\ UNCHANGED storeVars

\* Retry on either banner: revalidator.revalidate() re-runs the loader.
Retry ==
    /\ view \in {"readError", "routeError"}
    /\ nRetries < MaxRetries
    /\ nRetries' = nRetries + 1
    /\ loader
    /\ view' = IF view = "routeError" THEN "skeleton" ELSE view
    /\ routeError' = Undefined
    /\ UNCHANGED <<items, fetcher, inflight, nSubmits, awaitError>>
    /\ UNCHANGED storeVars

\* Claim One is pressed on row k: fetcher.Form posts itemId = item.id to the
\* action, which reads the form, calls claimStock and suspends.  The fetcher
\* keeps the data of its previous submission while submitting.
Submit(k) ==
    /\ view = "table"
    /\ k \in 1..Len(items)
    /\ ~disabled(items[k], fetcher[items[k].id])
    /\ nSubmits < MaxSubmits
    /\ fetcher' = [fetcher EXCEPT ![items[k].id].state = "submitting"]
    /\ inflight' = [inflight EXCEPT ![items[k].id] = @ + 1]
    /\ nSubmits' = nSubmits + 1
    /\ UNCHANGED <<view, items, readPending, reads, nRetries, awaitError, routeError>>
    /\ UNCHANGED <<MOCK_DB, calls, claimed>>

\* The delay of the claimStock call of a page submission ends: claimStock
\* runs to completion, the action returns its result, and the fetcher takes
\* the result as its data and waits for the revalidation.
ActionSettle(i) ==
    /\ inflight[i] > 0
    /\ LET r == claimStock(MOCK_DB, i) IN
         /\ MOCK_DB' = r.db
         /\ claimed' = IF r.threw THEN claimed ELSE [claimed EXCEPT ![i] = @ + 1]
         /\ fetcher' = [fetcher EXCEPT ![i] =
                          [state |-> "loading", hasData |-> TRUE, data |-> action(r)]]
    /\ inflight' = [inflight EXCEPT ![i] = @ - 1]
    /\ UNCHANGED <<view, items, readPending, nSubmits, reads, nRetries, awaitError,
                   routeError>>
    /\ UNCHANGED calls

\* The revalidation after a fetcher's action: the loader runs again and, as
\* it returns without awaiting the read, the fetcher goes back to idle while
\* the new read is pending.  Until that read settles the page keeps showing
\* what it showed, the table with the previous read included.
Revalidate(i) ==
    /\ fetcher[i].state = "loading"
    /\ loader
    /\ fetcher' = [fetcher EXCEPT ![i].state = "idle"]
    /\ UNCHANGED <<view, items, inflight, nSubmits, nRetries, awaitError, routeError>>
    /\ UNCHANGED storeVars

\* ------------------------------------------------------------ specification
Init ==
    /\ MOCK_DB = Seed
    /\ calls = [c \in Calls |-> FreeCall]
    /\ nSubmits = 0
    /\ reads = 0
    /\ nRetries = 0
    /\ claimed = [i \in Ids |-> 0]
    /\ view = "unvisited"
    /\ items = <<>>
    /\ readPending = FALSE
    /\ fetcher = [i \in SeedIds |-> Idle]
    /\ inflight = [i \in SeedIds |-> 0]
    /\ awaitError = Undefined
    /\ routeError = Undefined

\* The store under calls made by any callers.
NextStore ==
    \/ \E c \in Calls, id \in CallIds : CallClaim(c, id)
    \/ \E c \in Calls, id \in CallIds : CallAction(c, id)
    \/ \E c \in Calls : CallRead(c)
    \/ \E c \in Calls : ClaimResume(c)
    \/ \E c \in Calls : ReadResume(c)

\* One page instance and the store behind it.
NextPage ==
    \/ Visit
    \/ PageReadResolve
    \/ \E m \in ReadMessages : PageReadReject(m)
    \/ \E e \in RouteErrors : RouteThrow(e)
    \/ Retry
    \/ \E k \in 1..Len(items) : Submit(k)
    \/ \E i \in SeedIds : ActionSettle(i)
    \/ \E i \in SeedIds : Revalidate(i)

Next == NextStore \/ NextPage

SpecStore == Init /\ [][NextStore]_vars
SpecPage == Init /\ [][NextPage]_vars
Spec == Init /\ [][Next]_vars

\* The page with the scheduling the runtime gives: the timer of a pending
\* claimStock call fires, and the router runs the revalidation that follows
\* a fetcher's action.
FairSpecPage ==
    /\ SpecPage
    /\ \A i \in SeedIds : WF_vars(ActionSettle(i)) /\ WF_vars(Revalidate(i))

\* ================================================================== claims
IsClaim(c) == calls[c].op \in {"claimStock", "action"}
\* In this step the delay of call c ends and c runs to its return.
Resumes(c) == calls[c].pc = "delay" /\ calls'[c].pc = "done"

\* C1: in every reachable state, under any interleaving of claimStock and
\* getInventory calls with any identifiers, the stock of every item of the
\* store is an integer >= 0.
C1_StockNeverNegative ==
    \A k \in 1..Len(MOCK_DB) : MOCK_DB[k].stock \in Nat

\* C1 witness: the last unit of item "4" was claimed, and a further claim on
\* it, made while stock was left, has returned.
C1_Witness ==
    /\ stockOf(MOCK_DB, "4") = 0
    /\ claimed["4"] = 2
    /\ \E c \in Calls :
          /\ IsClaim(c) /\ calls[c].id = "4" /\ calls[c].pc = "done"
          /\ calls[c].stockAtCall > 0
          /\ calls[c].result.threw

\* C2 as stated: two claimStock calls in flight against the same item with
\* stock 1 can both succeed.  From such a state the two calls resume one
\* after the other, so both succeed exactly when claimStock succeeds twice
\* in a row on the store as it is.
C2_BothCanSucceed ==
    \A a, b \in Calls :
        ( /\ a # b /\ IsClaim(a) /\ IsClaim(b)
          /\ calls[a].pc = "delay" /\ calls[b].pc = "delay"
          /\ calls[a].id = calls[b].id
          /\ stockOf(MOCK_DB, calls[a].id) = 1 )
        => LET r1 == claimStock(MOCK_DB, calls[a].id)
               r2 == claimStock(r1.db, calls[b].id)
           IN ~r1.threw /\ ~r2.threw

\* C2 amended: two claimStock calls made against the same item while its
\* stock was 1 never both succeed; whichever of them fails fails with
\* "Out of stock", and the stock they leave is 0.
C2_NeverBothSucceed ==
    \A a, b \in Calls :
        ( /\ a # b /\ IsClaim(a) /\ IsClaim(b)
          /\ calls[a].id = calls[b].id
          /\ calls[a].stockAtCall = 1 /\ calls[b].stockAtCall = 1
          /\ calls[a].pc = "done" /\ calls[b].pc = "done" )
        => /\ ~(~calls[a].result.threw /\ ~calls[b].result.threw)
           /\ calls[a].result.threw => calls[a].result.message = "Out of stock"
           /\ calls[b].result.threw => calls[b].result.message = "Out of stock"
           /\ stockOf(MOCK_DB, calls[a].id) = 0

\* C2 witness: two calls made against the same item while its stock was 1
\* have both returned, one with the item and the other with "Out of stock".
C2_Witness ==
    \E a, b \in Calls :
        /\ a # b /\ IsClaim(a) /\ IsClaim(b)
        /\ calls[a].id = calls[b].id
        /\ calls[a].stockAtCall = 1 /\ calls[b].stockAtCall = 1
        /\ calls[a].pc = "done" /\ calls[b].pc = "done"
        /\ ~calls[a].result.threw
        /\ calls[b].result.threw /\ calls[b].result.message = "Out of stock"

\* C3: a claimStock call that resumes on an item whose stock is s > 0
\* succeeds, sets the store's stock of that item to s - 1 and returns that
\* item, whose stock reads s - 1.
C3_DecrementByOne ==
    [][\A c \in Calls :
          (IsClaim(c) /\ Resumes(c) /\ stockOf(MOCK_DB, calls[c].id) > 0)
          => /\ ~calls'[c].result.threw
             /\ stockOf(MOCK_DB', calls[c].id) = stockOf(MOCK_DB, calls[c].id) - 1
             /\ calls'[c].result.item = find(MOCK_DB, calls[c].id)
             /\ MOCK_DB'[calls'[c].result.item].stock
                  = stockOf(MOCK_DB, calls[c].id) - 1]_vars

\* C3 witness: a claim made on item "4" at stock 2, with no other claim on
\* it, has returned the item and the store holds 1.
C3_Witness ==
    \E c \in Calls :
        /\ calls[c].op = "claimStock" /\ calls[c].id = "4" /\ calls[c].pc = "done"
        /\ calls[c].stockAtCall = 2
        /\ ~calls[c].result.threw
        /\ MOCK_DB[calls[c].result.item].id = "4"
        /\ MOCK_DB[calls[c].result.item].stock = 1
        /\ \A d \in Calls \ {c} : ~(IsClaim(d) /\ calls[d].id = "4")

\* C4: a claimStock call that resumes on an item whose stock is 0 fails with
\* "Out of stock" and leaves the whole store as it was.
C4_OutOfStock ==
    [][\A c \in Calls :
          (IsClaim(c) /\ Resumes(c) /\ stockOf(MOCK_DB, calls[c].id) = 0)
          => /\ calls'[c].result.threw
             /\ calls'[c].result.message = "Out of stock"
             /\ MOCK_DB' = MOCK_DB]_vars

\* C4 witness: a claim on item "2", seeded with no stock, has failed with
\* "Out of stock".
C4_Witness ==
    \E c \in Calls :
        /\ IsClaim(c) /\ calls[c].id = "2" /\ calls[c].pc = "done"
        /\ calls[c].result.threw
        /\ calls[c].result.message = "Out of stock"
        /\ MOCK_DB = Seed

\* C5: a claimStock call whose identifier names no item of the store (a
\* missing itemId of the action's form data included) fails with "Item not
\* found" and leaves the whole store as it was; the action reports that
\* message.
C5_ItemNotFound ==
    [][\A c \in Calls :
          (IsClaim(c) /\ Resumes(c) /\ calls[c].id \notin {MOCK_DB[k].id : k \in 1..Len(MOCK_DB)})
          => /\ calls'[c].result.threw
             /\ calls'[c].result.message = "Item not found"
             /\ MOCK_DB' = MOCK_DB
             /\ calls[c].op = "action"
                  => /\ ~calls'[c].data.success
                     /\ calls'[c].data.error = "Item not found"]_vars

\* C5 witness: an action request without an itemId field and a claimStock
\* call with an unknown identifier have both failed with "Item not found".
C5_Witness ==
    \E c, d \in Calls :
        /\ calls[c].op = "action" /\ calls[c].id = Null /\ calls[c].pc = "done"
        /\ calls[c].data.error = "Item not found"
        /\ calls[d].op = "claimStock" /\ calls[d].id = UnknownId
        /\ calls[d].pc = "done" /\ calls[d].result.message = "Item not found"

\* C6: getInventory never changes the store, and every call returns all
\* seeded items: as many items, with the same identifiers in the same order,
\* whatever claims ran before or are in flight.
C6_ReadReturnsAllSeeded ==
    [][\A c \in Calls :
          (calls[c].op = "getInventory" /\ Resumes(c))
          => /\ MOCK_DB' = MOCK_DB
             /\ ~calls'[c].result.threw
             /\ Len(calls'[c].list) = Len(Seed)
             /\ \A k \in 1..Len(Seed) :
                   MOCK_DB'[calls'[c].list[k]].id = Seed[k].id]_vars

\* C6 witness: a read has returned after a claim took a unit of item "4" and
\* while another claim is in flight.
C6_Witness ==
    \E c, d \in Calls :
        /\ calls[c].op = "getInventory" /\ calls[c].pc = "done"
        /\ Len(calls[c].list) = 4
        /\ stockOf(MOCK_DB, "4") = 1
        /\ IsClaim(d) /\ calls[d].pc = "delay"

\* The rows of the table the page shows.
Rows == IF view = "table" THEN 1..Len(items) ELSE {}

\* C7: within one page instance at most one claim per item is in flight:
\* while the fetcher of item i is submitting or loading, the button of item i
\* is disabled, so no second request for i runs before the first has
\* settled.
C7_OneClaimInFlightPerItem ==
    /\ \A i \in SeedIds :
          /\ inflight[i] <= 1
          /\ inflight[i] = 1 => fetcher[i].state = "submitting"
    /\ \A k \in 1..Len(items) :
          fetcher[items[k].id].state \in {"submitting", "loading"}
          => disabled(items[k], fetcher[items[k].id])

\* C7 witness: the table shows item "4" with stock left while its claim is in
\* flight.
C7_Witness ==
    /\ view = "table"
    /\ \E k \in 1..Len(items) :
          /\ items[k].id = "4" /\ items[k].stock > 0
          /\ inflight["4"] = 1
          /\ fetcher["4"].state = "submitting"

\* C8: for every submission from the page, while the claim is submitted and
\* its settlement is not yet observed, the stock cell shows max(0, s - 1) for
\* the last-read stock s, also after an earlier claim on the item failed.
C8_PredictionOnEverySubmission ==
    \A k \in Rows :
        fetcher[items[k].id].state = "submitting"
        => displayStock(items[k], fetcher[items[k].id])
             = Max(0, items[k].stock - 1)

\* The fetcher of item i holds a failure result.
Failed(i) == fetcher[i].hasData /\ ~fetcher[i].data.success

\* C9: when a claim of the page fails, the action returns a failure result
\* whose error is the message claimStock threw and the store is unchanged;
\* from then on the fetcher keeps a failure result, and the stock cell shows
\* the last-read stock unmodified together with that error text.
C9_FailureRollsBack ==
    [][\A i \in SeedIds :
          /\ (inflight'[i] < inflight[i] /\ claimStock(MOCK_DB, i).threw)
             => /\ MOCK_DB' = MOCK_DB
                /\ fetcher'[i].hasData /\ ~fetcher'[i].data.success
                /\ fetcher'[i].data.error = claimStock(MOCK_DB, i).message
                /\ fetcher'[i].data.error \in {"Out of stock", "Item not found"}
          /\ Failed(i) => (fetcher'[i].hasData /\ ~fetcher'[i].data.success)
          /\ (fetcher'[i].hasData /\ ~fetcher'[i].data.success)
             => \A k \in 1..Len(items') :
                   items'[k].id = i
                   => /\ displayStock(items'[k], fetcher'[i]) = items'[k].stock
                      /\ errorText(fetcher'[i]) = fetcher'[i].data.error
                      /\ errorText(fetcher'[i]) # ""]_vars

\* C9 witness: a claim on item "4" failed with "Out of stock" while the page
\* still shows stock 2 for it, and the revalidation has not run yet.
C9_Witness ==
    /\ view = "table"
    /\ Failed("4") /\ fetcher["4"].state = "loading"
    /\ fetcher["4"].data.error = "Out of stock"
    /\ \E k \in 1..Len(items) : items[k].id = "4" /\ items[k].stock = 2
    /\ stockOf(MOCK_DB, "4") = 0

\* C10: when the deferred read rejects with message m, the inline panel
\* shows exactly m, and the route boundary shows exactly the message of the
\* error that reached it.
C10_MessagesVerbatim ==
    /\ view = "readError"
       => InventoryErrorFallback(errorElementProps) = awaitError.message
    /\ (view = "routeError" /\ routeError.type = "Error")
       => ErrorBoundary(routeError) = routeError.message

\* The rows of item i in the page's last read.
RowsOf(i) == {k \in 1..Len(items) : items[k].id = i}

C12_ClaimAtZeroCanBeSubmitted ==
    \A k \in Rows :
        (items[k].stock = 0 /\ fetcher[items[k].id].state = "idle")
        => ~disabled(items[k], fetcher[items[k].id])

\* C13: a claimStock call that has started but not completed has changed
\* nothing in the store: the store changes only in the step in which a claim
\* resumes, and a getInventory call that returns while claims are in flight
\* returns, for every item, the seeded stock less the claims completed.
C13_PendingClaimChangesNothing ==
    [][/\ MOCK_DB' # MOCK_DB => \E c \in Calls : IsClaim(c) /\ Resumes(c)
       /\ \A c \in Calls :
             (calls[c].op = "getInventory" /\ Resumes(c))
             => \A k \in 1..Len(calls'[c].list) :
                   MOCK_DB'[calls'[c].list[k]].stock
                     = Seed[k].stock - claimed[Seed[k].id]]_vars

\* C13 witness: a read has returned stock 2 for item "4" while a claim made
\* on it is still in its delay.
C13_Witness ==
    \E c, d \in Calls :
        /\ calls[c].op = "getInventory" /\ calls[c].pc = "done"
        /\ IsClaim(d) /\ calls[d].id = "4" /\ calls[d].pc = "delay"
        /\ calls[d].stockAtCall = 2
        /\ Len(calls[c].list) = 4
        /\ ReturnedList(c)[4].stock = 2

\* C14: the list a getInventory call returned is a snapshot: a claimStock
\* that completes afterwards does not change the stock values read from it.
C14_ReturnedListIsSnapshot ==
    [][\A c \in Calls :
          (calls[c].op = "getInventory" /\ calls[c].pc = "done")
          => ReturnedList(c)' = ReturnedList(c)]_vars

\* C15: the store always holds exactly the seeded items, with their ids and
\* names in the seeded order, and a claim on one item changes no other item.
C15_OnlyTargetChanges ==
    [][/\ Len(MOCK_DB') = Len(Seed)
       /\ \A k \in 1..Len(Seed) :
             MOCK_DB'[k].id = Seed[k].id /\ MOCK_DB'[k].name = Seed[k].name
       /\ \A c \in Calls :
             (IsClaim(c) /\ Resumes(c))
             => \A k \in 1..Len(MOCK_DB) :
                   MOCK_DB[k].id # calls[c].id => MOCK_DB'[k] = MOCK_DB[k]]_vars

\* C15 witness: a claim on item "4" has taken a unit and the other three
\* items are as seeded.
C15_Witness ==
    /\ \E c \in Calls :
          IsClaim(c) /\ calls[c].id = "4" /\ calls[c].pc = "done"
          /\ ~calls[c].result.threw
    /\ MOCK_DB[4].stock = 1
    /\ \A k \in 1..3 : MOCK_DB[k] = Seed[k]

\* C17: for every item, seeded stock = stock in the store + number of
\* claimStock calls on it that returned the item; so the successful claims
\* on an item never exceed its seeded stock, and no step raises a stock.
C17_StockConserved ==
    [][/\ \A k \in 1..Len(Seed) :
             /\ Seed[k].stock = MOCK_DB'[k].stock + claimed'[Seed[k].id]
             /\ claimed'[Seed[k].id] <= Seed[k].stock
             /\ MOCK_DB'[k].stock <= MOCK_DB[k].stock
       /\ \A i \in Ids \ SeedIds : claimed'[i] = 0]_vars

\* C17 witness: two calls took the two units of item "4" and a third call on
\* it, in flight with them, failed.
C17_Witness ==
    \E a, b, c \in Calls :
        /\ a # b /\ a # c /\ b # c
        /\ \A d \in {a, b, c} :
              IsClaim(d) /\ calls[d].id = "4" /\ calls[d].pc = "done"
              /\ calls[d].stockAtCall = 2
        /\ ~calls[a].result.threw /\ ~calls[b].result.threw
        /\ calls[c].result.threw
        /\ claimed["4"] = 2
        /\ stockOf(MOCK_DB, "4") = 0

C18_DisplayedStock ==
    \A k \in 1..Len(items) :
        LET f == fetcher[items[k].id] IN
        /\ displayStock(items[k], f) >= 0
        /\ (f.state = "idle" /\ inflight[items[k].id] = 0)
           => displayStock(items[k], f) = items[k].stock

\* C18 witness: a read showing stock 0 for item "4" arrived while the claim
\* that took its last unit awaits its revalidation, so the prediction is
\* floored at 0.
C18_Witness ==
    /\ view = "table"
    /\ fetcher["4"].state = "loading" /\ fetcher["4"].data.success
    /\ \E k \in RowsOf("4") :
          items[k].stock = 0 /\ displayStock(items[k], fetcher["4"]) = 0
====
